---- MODULE Spec2Model ----
(***************************************************************************)
(* A model of the annotation engine of docdeid: the redactors              *)
(* (process/redactor.py), the annotators (process/annotator.py) and the    *)
(* inline markup renderer (utils.py).                                      *)
(*                                                                         *)
(* Strings are sequences of one-character strings; a Python dict is a      *)
(* function whose DOMAIN is its key set; a Python set is a set, and the    *)
(* order in which Python iterates over it is a nondeterministic choice.    *)
(***************************************************************************)
EXTENDS Integers, Sequences, FiniteSets, TLC

VARIABLES
    pc,             \* position of the call that is running
    text,           \* doc.text
    annotations,    \* doc.annotations (an AnnotationSet)
    check_overlap,  \* SimpleRedactor.check_overlap
    counter,        \* redact: annotation_text_to_counter
    replacement,    \* redact: annotation_replacement
    pending,        \* _replace_annotations_in_text: annotations still to splice
    out,            \* _replace_annotations_in_text: the local variable text
    deid,           \* doc.deidentified_text, with whether it was set
    queue,          \* Overlap Resolver: sorted candidates not yet swept
    accepted,       \* Overlap Resolver: annotations accepted so far
    lookup_values,  \* MultiTokenLookupAnnotator.__init__: lookup_values
    matching_pipeline, \* MultiTokenLookupAnnotator.matching_pipeline
    overlapping,    \* MultiTokenLookupAnnotator.overlapping
    trie,           \* MultiTokenLookupAnnotator.trie
    start_tokens,   \* MultiTokenLookupAnnotator.start_tokens
    tokens,         \* annotate: doc.get_tokens()
    start_positions, \* annotate: start positions the loop has yet to visit
    min_i,          \* annotate: min_i
    tried,          \* annotate: start positions given to the trie so far
    emitted,        \* annotate: the list annotations
    regexp_pattern, \* RegexpAnnotator.regexp_pattern
    capturing_group, \* RegexpAnnotator.capturing_group
    pre_tokens,     \* RegexpAnnotator.pre_tokens
    scan,           \* finditer: where the search for the next match starts
    debug,          \* annotate_doc: debug
    annos_from_shortest, \* annotate_doc: annos_from_shortest
    markup_indices, \* annotate_doc: boundary indices the loop has yet to visit
    chunks,         \* annotate_doc: chunks
    last_idx,       \* annotate_doc: last_idx
    lookup_set,     \* lookup_set_to_trie: lookup_set (items, matching_pipeline)
    todo,           \* lookup_set_to_trie: items the loop has yet to visit
    new_trie,       \* lookup_set_to_trie: trie
    metadata,       \* doc.metadata
    redactor,       \* RedactAllText: open_char and close_char
    input,          \* SimpleRedactor.redact: the arguments as they were passed
    annotators,     \* annotators that have yet to process the document
    returned,       \* the lists that annotate returned, in call order
    before          \* doc.annotations before the first process call

redactVars == <<check_overlap, counter, replacement, pending, out, deid>>
resolveVars == <<queue, accepted>>
lookupVars == <<lookup_values, matching_pipeline, overlapping, trie,
                start_tokens, tokens, start_positions, min_i, tried>>
annotateVars == <<emitted>>
regexpVars == <<regexp_pattern, capturing_group, pre_tokens, scan>>
markupVars == <<debug, annos_from_shortest, markup_indices, chunks, last_idx>>
convertVars == <<lookup_set, todo, new_trie>>
processVars == <<annotators, returned, before>>
otherVars == <<convertVars, processVars, metadata, redactor, input>>

vars == <<pc, text, annotations, redactVars, resolveVars, lookupVars,
          annotateVars, regexpVars, markupVars, otherVars>>

(***************************************************************************)
(* Bounds of the model.                                                    *)
(***************************************************************************)
MaxTextLen == 3
MaxAnnos == 3
MaxResolveLen == 2
MaxDocLen == 3
MaxPhraseLen == 2

Chars == {"a", "b"}
Tags == {<<"p">>, <<"q">>}

(***************************************************************************)
(* Strings.                                                                *)
(***************************************************************************)
Min(a, b) == IF a < b THEN a ELSE b
Max(a, b) == IF a < b THEN b ELSE a

\* A slice index as Python reads it: a negative one counts from the end, and
\* the result is clamped to 0..len(s).
SliceIndex(s, i) == IF i < 0 THEN Max(i + Len(s), 0) ELSE Min(i, Len(s))

\* Python's s[i:j]
Slice(s, i, j) == SubSeq(s, SliceIndex(s, i) + 1, SliceIndex(s, j))

\* Python's s[i:]
SliceFrom(s, i) == Slice(s, i, Len(s))

\* Code points of the characters the model uses.
Ord(c) ==
    CASE c = " " -> 32
      [] c = "A" -> 65
      [] c = "B" -> 66
      [] c = "P" -> 80
      [] c = "Q" -> 81
      [] c = "a" -> 97
      [] c = "b" -> 98
      [] c = "p" -> 112
      [] c = "q" -> 113
      [] OTHER -> 0

UpperChar(c) ==
    CASE c = "a" -> "A"
      [] c = "b" -> "B"
      [] c = "p" -> "P"
      [] c = "q" -> "Q"
      [] OTHER -> c

LowerChar(c) ==
    CASE c = "A" -> "a"
      [] c = "B" -> "b"
      [] c = "P" -> "p"
      [] c = "Q" -> "q"
      [] OTHER -> c

\* str.upper()
Upper(s) == [i \in 1..Len(s) |-> UpperChar(s[i])]

\* Python's s < t on strings: lexicographic by code point.
RECURSIVE StrLess(_, _)
StrLess(s, t) ==
    IF t = <<>> THEN FALSE
    ELSE IF s = <<>> THEN TRUE
    ELSE IF Ord(Head(s)) # Ord(Head(t)) THEN Ord(Head(s)) < Ord(Head(t))
    ELSE StrLess(Tail(s), Tail(t))

DigitChar(d) ==
    CASE d = 0 -> "0" [] d = 1 -> "1" [] d = 2 -> "2" [] d = 3 -> "3"
      [] d = 4 -> "4" [] d = 5 -> "5" [] d = 6 -> "6" [] d = 7 -> "7"
      [] d = 8 -> "8" [] OTHER -> "9"

\* str(n) of a natural number, as an f-string formats it.
RECURSIVE IntToStr(_)
IntToStr(n) ==
    IF n < 10 THEN <<DigitChar(n)>>
    ELSE IntToStr(n \div 10) \o <<DigitChar(n % 10)>>

RECURSIVE StringsUpTo(_)
StringsUpTo(n) ==
    IF n = 0 THEN {<<>>}
    ELSE LET shorter == StringsUpTo(n - 1)
         IN  shorter \cup {Append(s, c) : s \in {x \in shorter : Len(x) = n - 1},
                                          c \in Chars}

(***************************************************************************)
(* Sequences and sorting.                                                  *)
(***************************************************************************)
Range(s) == {s[i] : i \in 1..Len(s)}

\* The orders in which the members of a set can be iterated over.
RECURSIVE Perms(_)
Perms(S) ==
    IF S = {} THEN {<<>>}
    ELSE UNION {{<<x>> \o p : p \in Perms(S \ {x})} : x \in S}

\* Python's sorted(s, key=...): a stable sort of the sequence s by the integer
\* key[x] of each element x. The element at index i goes behind every element
\* of a smaller key and every element of the same key that precedes it in s.
SortedPos(s, key, i) ==
    1 + Cardinality({j \in 1..Len(s) :
            \/ key[s[j]] < key[s[i]]
            \/ key[s[j]] = key[s[i]] /\ j < i})

StableSort(s, key) ==
    [k \in 1..Len(s) |-> s[CHOOSE i \in 1..Len(s) : SortedPos(s, key, i) = k]]

(***************************************************************************)
(* Annotation and AnnotationSet.                                           *)
(***************************************************************************)
Annotation(txt, start_char, end_char, tag, priority) ==
    [text |-> txt, start_char |-> start_char, end_char |-> end_char,
     tag |-> tag, priority |-> priority]

\* The annotations of tag and span inside txt that conform to the data model.
SpanAnnotations(txt, prios) ==
    {Annotation(Slice(txt, s, e), s, e, t, p) :
        s \in 0..Len(txt), e \in 0..Len(txt), t \in Tags, p \in prios}

ValidAnnotations(txt, prios) ==
    {a \in SpanAnnotations(txt, prios) : a.start_char < a.end_char}

\* The subsets of S of at most n members.
RECURSIVE SetsUpTo(_, _)
SetsUpTo(S, n) ==
    IF n = 0 THEN {{}}
    ELSE LET smaller == SetsUpTo(S, n - 1)
         IN  smaller \cup {A \cup {x} : A \in smaller, x \in S}

\* Two annotations share at least one character position.
Overlaps(a, b) ==
    /\ a.start_char < b.end_char
    /\ b.start_char < a.end_char

\* AnnotationSet.has_overlap()
has_overlap(annos) ==
    \E a \in annos : \E b \in annos : a # b /\ Overlaps(a, b)

\* The sets of at most n members of S in which no two members overlap.
RECURSIVE OverlapFreeSets(_, _)
OverlapFreeSets(S, n) ==
    IF n = 0 THEN {{}}
    ELSE LET smaller == OverlapFreeSets(S, n - 1)
         IN  smaller \cup
             UNION {{A \cup {x} : x \in {y \in S : \A b \in A : ~Overlaps(y, b)}} :
                    A \in smaller}

\* The two-member sets of S whose members overlap.
OverlappingPairs(S) ==
    UNION {{{a, b} : b \in {y \in S : y # a /\ Overlaps(a, y)}} : a \in S}

\* A sort by end_char that lacks the negating callback.
SortedEndCharAsc(order) ==
    StableSort(order, [a \in Range(order) |-> a.end_char])

\* AnnotationSet.sorted(by=("end_char",), callbacks={end_char: lambda x: -x}),
\* over the iteration order `order` of the set.
SortedEndCharDesc(order) ==
    StableSort(order, [a \in Range(order) |-> -a.end_char])

(***************************************************************************)
(* SimpleRedactor.                                                         *)
(***************************************************************************)
open_char == <<"[">>
close_char == <<"]">>

NoText == [set |-> FALSE, text |-> <<>>]
SomeText(s) == [set |-> TRUE, text |-> s]

\* _group_by_tag: sorted(annotations, key=tag), then itertools.groupby, which
\* yields one group per run of equal tags.
\* The key orders the tags as Python orders strings.
TagRank(order, tag) ==
    Cardinality({b.tag : b \in {x \in Range(order) : StrLess(x.tag, tag)}})

ReorderedByTag(order) ==
    StableSort(order, [a \in Range(order) |-> TagRank(order, a.tag)])

RECURSIVE GroupRuns(_)
GroupRuns(s) ==
    IF s = <<>> THEN <<>>
    ELSE LET rest == GroupRuns(Tail(s))
         IN  IF rest # <<>> /\ Head(rest)[1].tag = Head(s).tag
             THEN <<<<Head(s)>> \o Head(rest)>> \o Tail(rest)
             ELSE <<<<Head(s)>>>> \o rest

_group_by_tag(order) == GroupRuns(ReorderedByTag(order))

\* A group left in the order in which the set gave it.
GroupUnsorted(group) == group

\* sorted(annotation_group, key=lambda a: a.get_sort_key(by=("end_char",)))
GroupSorted(group) ==
    StableSort(group, [a \in Range(group) |-> a.end_char])

\* The loop over one sorted group: a text not seen yet gets len(dict) + 1.
RECURSIVE GroupCounter(_, _)
GroupCounter(group, d) ==
    IF group = <<>> THEN d
    ELSE LET t == Head(group).text
         IN  GroupCounter(Tail(group),
                 IF t \in DOMAIN d THEN d
                 ELSE [x \in DOMAIN d \cup {t} |->
                          IF x = t THEN Cardinality(DOMAIN d) + 1 ELSE d[x]])

EmptyDict == [x \in {} |-> 0]

\* d |= g
DictUpdate(d, g) ==
    [x \in DOMAIN d \cup DOMAIN g |-> IF x \in DOMAIN g THEN g[x] ELSE d[x]]

\* The loop over the tag groups, each merged into annotation_text_to_counter.
RECURSIVE MergeGroups(_, _)
MergeGroups(groups, d) ==
    IF groups = <<>> THEN d
    ELSE MergeGroups(Tail(groups),
             DictUpdate(d, GroupCounter(GroupSorted(Head(groups)), EmptyDict)))

TextToCounter(order) == MergeGroups(_group_by_tag(order), EmptyDict)

\* The f-string that is an annotation's replacement.
Label(tag, n) ==
    open_char \o Upper(tag) \o <<"-">> \o IntToStr(n) \o close_char

AnnotationReplacement(annos, d) ==
    [a \in annos |-> Label(a.tag, d[a.text])]

\* One pass of the loop of _replace_annotations_in_text.
Splice(txt, a, rep) ==
    Slice(txt, 0, a.start_char) \o rep[a] \o SliceFrom(txt, a.end_char)

\* An overlap test with its sense inverted.
RedactRaisesInverted(check, annos) == check /\ ~has_overlap(annos)

\* An overlap test that ignores check_overlap.
RedactRaisesUnconditional(check, annos) == has_overlap(annos)

\* The condition under which redact raises ValueError.
RedactRaises(check, annos) == check /\ has_overlap(annos)

\* The locals of a redact call that has not started.
RedactIdle ==
    /\ counter = EmptyDict
    /\ replacement = EmptyDict
    /\ pending = <<>>
    /\ out = <<>>
    /\ deid = NoText

ResolveIdle ==
    /\ queue = <<>>
    /\ accepted = {}

\* The state of an annotator that the run does not use.
LookupIdle ==
    /\ lookup_values = {}
    /\ matching_pipeline = <<>>
    /\ overlapping = FALSE
    /\ trie = [nodes |-> {<<>>}, terminal |-> {}]
    /\ start_tokens = {}
    /\ tokens = <<>>
    /\ start_positions = <<>>
    /\ min_i = 0
    /\ tried = <<>>

AnnotateIdle == emitted = <<>>

RegexpIdle ==
    /\ regexp_pattern = <<>>
    /\ capturing_group = 0
    /\ pre_tokens = [given |-> FALSE, words |-> {}]
    /\ scan = 0

MarkupIdle ==
    /\ debug = FALSE
    /\ annos_from_shortest = <<>>
    /\ markup_indices = <<>>
    /\ chunks = <<>>
    /\ last_idx = 0

ConvertIdle ==
    /\ lookup_set = [items |-> {}, matching_pipeline |-> <<>>]
    /\ todo = {}
    /\ new_trie = [matching_pipeline |-> <<>>, nodes |-> {<<>>}, terminal |-> {}]

ProcessIdle ==
    /\ annotators = {}
    /\ returned = <<>>
    /\ before = {}

AllTextIdle ==
    /\ metadata = "none"
    /\ redactor = [open_char |-> <<"[">>, close_char |-> <<"]">>]

InputIdle == input = [text |-> <<>>, annotations |-> {}]

OtherIdle ==
    /\ ConvertIdle
    /\ ProcessIdle
    /\ AllTextIdle
    /\ InputIdle

RedactInit ==
    /\ ConvertIdle
    /\ ProcessIdle
    /\ AllTextIdle
    /\ pc = "redact"
    /\ text \in StringsUpTo(MaxTextLen)
    /\ annotations \in
          OverlapFreeSets(ValidAnnotations(text, {0}), MaxAnnos)
              \cup OverlappingPairs(ValidAnnotations(text, {0}))
    /\ check_overlap \in BOOLEAN
    /\ RedactIdle
    /\ ResolveIdle
    /\ LookupIdle
    /\ AnnotateIdle
    /\ RegexpIdle
    /\ MarkupIdle
    /\ input = [text |-> text, annotations |-> annotations]

\* redact, lines 151-154: the overlap check.
RedactCheck ==
    /\ pc = "redact"
    /\ pc' = IF RedactRaises(check_overlap, annotations) THEN "raised" ELSE "count"
    /\ UNCHANGED <<otherVars, text, annotations, redactVars, resolveVars, lookupVars, annotateVars,
                   regexpVars, markupVars>>

\* redact, lines 156-189 up to the call of _replace_annotations_in_text, and
\* the sort that opens it.
RedactCount ==
    /\ pc = "count"
    /\ \E order \in Perms(annotations) :
          /\ counter' = TextToCounter(order)
          /\ replacement' = AnnotationReplacement(annotations, counter')
          /\ pending' = SortedEndCharDesc(order)
    /\ out' = text
    /\ pc' = "replace"
    /\ UNCHANGED <<otherVars, text, annotations, check_overlap, deid, resolveVars, lookupVars, annotateVars,
                   regexpVars, markupVars>>

\* One iteration of the loop of _replace_annotations_in_text.
ReplaceStep ==
    /\ pc = "replace"
    /\ pending # <<>>
    /\ out' = Splice(out, Head(pending), replacement)
    /\ pending' = Tail(pending)
    /\ UNCHANGED <<otherVars, pc, text, annotations, check_overlap, counter, replacement,
                   deid, resolveVars, lookupVars, annotateVars,
                   regexpVars, markupVars>>

\* redact returns and Redactor.process stores the redacted text.
RedactReturn ==
    /\ pc = "replace"
    /\ pending = <<>>
    /\ deid' = SomeText(out)
    /\ pc' = "redacted"
    /\ UNCHANGED <<otherVars, text, annotations, check_overlap, counter, replacement,
                   pending, out, resolveVars, lookupVars, annotateVars,
                   regexpVars, markupVars>>

RedactNext == RedactCheck \/ RedactCount \/ ReplaceStep \/ RedactReturn

SpecRedact == RedactInit /\ [][RedactNext]_vars

(***************************************************************************)
(* Properties of SimpleRedactor.redact.                                    *)
(***************************************************************************)
RedactComputed == pc \in {"replace", "redacted"}

\* The smallest end_char at which txt occurs among the annotations of tag.
FirstEnd(annos, tag, txt) ==
    LET ends == {b.end_char : b \in {x \in annos : x.tag = tag /\ x.text = txt}}
    IN  CHOOSE e \in ends : \A f \in ends : e <= f

\* The 1-based rank of a's text among the distinct texts of a's tag.
RankInTag(annos, a) ==
    LET texts == {b.text : b \in {x \in annos : x.tag = a.tag}}
    IN  1 + Cardinality({t \in texts :
                FirstEnd(annos, a.tag, t) < FirstEnd(annos, a.tag, a.text)})

\* C1: on an overlap-free set, the label of every annotation carries the
\* 1-based rank of its text among the distinct texts of its own tag, ranked
\* by the smallest end_char of each text within that tag.
C1_CounterIsRankWithinTag ==
    (RedactComputed /\ ~has_overlap(annotations)) =>
        \A a \in annotations :
            replacement[a] = Label(a.tag, RankInTag(annotations, a))

\* C2: on an overlap-free set, two annotations of the same tag get the same
\* label if and only if their texts are equal.
C2_SameLabelIffSameText ==
    (RedactComputed /\ ~has_overlap(annotations)) =>
        \A a \in annotations : \A b \in annotations :
            a.tag = b.tag => (replacement[a] = replacement[b] <=> a.text = b.text)

\* The text read from character i on, left to right, in which every span is
\* replaced by rep of its annotation and every other character is kept.
RECURSIVE Rebuilt(_, _, _, _)
Rebuilt(txt, annos, rep, i) ==
    IF i >= Len(txt) THEN <<>>
    ELSE IF \E a \in annos : a.start_char = i
         THEN LET a == CHOOSE x \in annos : x.start_char = i
              IN  rep[a] \o Rebuilt(txt, annos, rep, a.end_char)
         ELSE <<txt[i + 1]>> \o Rebuilt(txt, annos, rep, i + 1)

\* C3: on an overlap-free set, the redacted text is the original text with
\* each span replaced by {open}{TAG_UPPER}-{counter}{close} of its annotation
\* and all other characters kept in order.
C3_SpansReplacedRestKept ==
    (pc = "redacted" /\ ~has_overlap(annotations)) =>
        /\ deid.set
        /\ deid.text =
              Rebuilt(text, annotations,
                      [a \in annotations |-> Label(a.tag, counter[a.text])], 0)

C3_Witness ==
    /\ pc = "redacted"
    /\ ~has_overlap(annotations)
    /\ Cardinality(annotations) >= 2
    /\ \E a \in annotations : a.start_char > 0 /\ a.end_char < Len(text)

\* C4: redact raises exactly when check_overlap is set and the set overlaps,
\* and a call that raised leaves the deidentified text unset.
C4_RaisesIffCheckedOverlap ==
    /\ pc = "raised" =>
          check_overlap /\ has_overlap(annotations) /\ deid = NoText
    /\ pc \in {"count", "replace", "redacted"} =>
          ~(check_overlap /\ has_overlap(annotations))
    /\ deid.set => pc = "redacted"

C4_Witness ==
    /\ pc = "raised"
    /\ check_overlap
    /\ has_overlap(annotations)
    /\ ~deid.set

(***************************************************************************)
(* Overlap Resolver.                                                       *)
(***************************************************************************)
\* The candidates sorted by priority descending, then span length descending,
\* then start_char ascending: the three keys packed into one integer, w being
\* larger than every length and every start_char.
ResolverKey(a, w) ==
    (-a.priority * w - (a.end_char - a.start_char)) * w + a.start_char

ResolverSorted(order) ==
    LET w == 1 + Len(text)
    IN  StableSort(order, [a \in Range(order) |-> ResolverKey(a, w)])

\* The greedy sweep accepts a candidate that overlaps nothing accepted so far.
Accepts(acc, a) == \A b \in acc : ~Overlaps(a, b)

\* The resolver reads spans, tags and priorities only, never the characters.
ResolveInit ==
    /\ OtherIdle
    /\ pc = "resolve"
    /\ text \in {[i \in 1..n |-> "a"] : n \in 0..MaxResolveLen}
    /\ annotations \in SetsUpTo(ValidAnnotations(text, {0, 1}), MaxAnnos)
    /\ check_overlap = TRUE
    /\ RedactIdle
    /\ ResolveIdle
    /\ RegexpIdle
    /\ MarkupIdle
    /\ LookupIdle
    /\ AnnotateIdle
    /\ RegexpIdle
    /\ MarkupIdle

ResolveSort ==
    /\ pc = "resolve"
    /\ \E order \in Perms(annotations) : queue' = ResolverSorted(order)
    /\ pc' = "sweep"
    /\ UNCHANGED <<otherVars, text, annotations, redactVars, accepted, lookupVars,
                   annotateVars,
                   regexpVars, markupVars>>

ResolveStep ==
    /\ pc = "sweep"
    /\ queue # <<>>
    /\ accepted' = IF Accepts(accepted, Head(queue))
                   THEN accepted \cup {Head(queue)}
                   ELSE accepted
    /\ queue' = Tail(queue)
    /\ UNCHANGED <<otherVars, pc, text, annotations, redactVars, lookupVars, annotateVars,
                   regexpVars, markupVars>>

\* The resolver returns a new AnnotationSet, which the document then holds.
ResolveReturn ==
    /\ pc = "sweep"
    /\ queue = <<>>
    /\ annotations' = accepted
    /\ pc' = "redact"
    /\ UNCHANGED <<otherVars, text, redactVars, resolveVars, lookupVars, annotateVars,
                   regexpVars, markupVars>>

ResolveNext ==
    \/ ResolveSort
    \/ ResolveStep
    \/ ResolveReturn
    \/ RedactCheck

SpecResolve == ResolveInit /\ [][ResolveNext]_vars

Resolved == pc \notin {"resolve", "sweep"}

\* C5: no two distinct annotations of a resolver output share a character
\* position, and redact with check_overlap set does not raise on it.
C5_ResolverOutputOverlapFree ==
    Resolved =>
        /\ \A a \in annotations : \A b \in annotations :
              a # b => (a.end_char <= b.start_char \/ b.end_char <= a.start_char)
        /\ check_overlap
        /\ pc # "raised"

C5_Witness ==
    /\ pc = "count"
    /\ check_overlap
    /\ Cardinality(accepted) >= 2
    /\ Len(queue) = 0
    /\ annotations = accepted

(***************************************************************************)
(* Tokenizer, matching pipeline and LookupTrie.                            *)
(***************************************************************************)
DocChars == {"a", "A", " "}
PhraseChars == {"a", "A"}

RECURSIVE StringsOver(_, _)
StringsOver(alphabet, n) ==
    IF n = 0 THEN {<<>>}
    ELSE LET shorter == StringsOver(alphabet, n - 1)
         IN  shorter \cup {Append(s, c) : s \in {x \in shorter : Len(x) = n - 1},
                                          c \in alphabet}

Token(txt, start_char, end_char) ==
    [text |-> txt, start_char |-> start_char, end_char |-> end_char]

\* The tokenizer: every character that is not a space is one token.
Tokenize(txt) ==
    LET at == {i \in 1..Len(txt) : txt[i] # " "}
        nth(k) == CHOOSE i \in at : Cardinality({j \in at : j <= i}) = k
    IN  [k \in 1..Cardinality(at) |-> Token(<<txt[nth(k)]>>, nth(k) - 1, nth(k))]

\* [token.text for token in ...]
TokenTexts(toks) == [k \in 1..Len(toks) |-> toks[k].text]

\* LowercaseString.process
LowercaseString(item) == [i \in 1..Len(item) |-> LowerChar(item[i])]

StringModifiers == {"LowercaseString"}

Process(string_modifier, item) ==
    CASE string_modifier = "LowercaseString" -> LowercaseString(item)
      [] OTHER -> item

\* for string_modifier in pipeline: item = string_modifier.process(item)
RECURSIVE ApplyPipeline(_, _)
ApplyPipeline(pipeline, item) ==
    IF pipeline = <<>> THEN item
    ELSE ApplyPipeline(Tail(pipeline), Process(Head(pipeline), item))

EmptyTrie == [nodes |-> {<<>>}, terminal |-> {}]

\* LookupTrie.add_item: the pipeline is applied to each element, the path is
\* walked or extended, and its last node is marked terminal.
TrieAddItem(t, pipeline, texts) ==
    LET path == [k \in 1..Len(texts) |-> ApplyPipeline(pipeline, texts[k])]
    IN  [nodes |-> t.nodes \cup {SubSeq(path, 1, k) : k \in 0..Len(path)},
         terminal |-> t.terminal \cup {path}]

NoMatch == [found |-> FALSE, length |-> 0]
Match(n) == [found |-> TRUE, length |-> n]

\* LookupTrie.longest_matching_prefix(item, start_i), from the node `path`
\* reached with item[start_i : i]: the pipeline is applied to item[i], the
\* walk stops where no child exists, and every terminal node passed is
\* remembered, so that the last one remembered is returned.
RECURSIVE TrieWalk(_, _, _, _, _, _)
TrieWalk(t, pipeline, item, i, path, best) ==
    IF i >= Len(item) THEN best
    ELSE LET child == Append(path, ApplyPipeline(pipeline, item[i + 1]))
         IN  IF child \notin t.nodes THEN best
             ELSE TrieWalk(t, pipeline, item, i + 1, child,
                           IF child \in t.terminal THEN Match(Len(child))
                           ELSE best)

longest_matching_prefix(t, pipeline, item, start_i) ==
    TrieWalk(t, pipeline, item, start_i, <<>>, NoMatch)

(***************************************************************************)
(* MultiTokenLookupAnnotator.                                              *)
(***************************************************************************)
AnnotatorTag == <<"p">>
AnnotatorPriority == 0

TokenAnnotation(txt, start_token, end_token) ==
    [text |-> txt, start_char |-> start_token.start_char,
     end_char |-> end_token.end_char, start_token |-> start_token,
     end_token |-> end_token, tag |-> AnnotatorTag,
     priority |-> AnnotatorPriority]

\* __init__, lines 139-152: the loop over lookup_values, in any order.
RECURSIVE BuildTrie(_, _, _)
BuildTrie(vals, pipeline, t) ==
    IF vals = {} THEN t
    ELSE LET val == CHOOSE v \in vals : TRUE
             texts == TokenTexts(Tokenize(val))
         IN  BuildTrie(vals \ {val}, pipeline,
                       IF Len(texts) > 0 THEN TrieAddItem(t, pipeline, texts)
                       ELSE t)

\* Start tokens kept as they are in the lookup values.
BuildStartTokensRaw(vals, pipeline) ==
    {TokenTexts(Tokenize(val))[1] :
        val \in {v \in vals : Len(TokenTexts(Tokenize(v))) > 0}}

BuildStartTokens(vals, pipeline) ==
    {ApplyPipeline(pipeline, TokenTexts(Tokenize(val))[1]) :
        val \in {v \in vals : Len(TokenTexts(Tokenize(v))) > 0}}

\* tokens.token_lookup(lookup_values, matching_pipeline): the tokens whose
\* text, after the pipeline, is one of the lookup values.
token_lookup(toks, vals, pipeline) ==
    {toks[k] : k \in {j \in 1..Len(toks) :
                          ApplyPipeline(pipeline, toks[j].text) \in vals}}

\* tokens.token_index(token), counted from 0.
token_index(toks, token) == (CHOOSE k \in 1..Len(toks) : toks[k] = token) - 1

\* annotate, lines 159-163, over the order in which the set of tokens that
\* token_lookup returned is iterated.
StartPositions(toks, order) ==
    LET sorted == StableSort(order, [t \in Range(order) |-> t.start_char])
    IN  [k \in 1..Len(sorted) |-> token_index(toks, sorted[k])]

\* An end token that is the start token.
EndTokenIndexFirst(i, n) == i

\* annotate, line 179: the index of the end token.
EndTokenIndex(i, n) == i + n - 1

\* A skip that stops one token short.
SkipAheadShort(i, n) == i + n - 1

\* annotate, line 194: skip ahead.
SkipAhead(i, n) == i + n

\* The lookup lists of no, one or two values.
LookupValueSets ==
    LET pool == StringsOver(PhraseChars, MaxPhraseLen)
    IN  {{}} \cup {{v, w} : v \in pool, w \in pool}

LookupInit ==
    /\ OtherIdle
    /\ pc = "annotate"
    /\ text \in StringsOver(DocChars, MaxDocLen)
    /\ annotations = {}
    /\ lookup_values \in LookupValueSets
    /\ matching_pipeline \in {<<>>, <<"LowercaseString">>}
    /\ overlapping \in BOOLEAN
    /\ trie = BuildTrie(lookup_values, matching_pipeline, EmptyTrie)
    /\ start_tokens = BuildStartTokens(lookup_values, matching_pipeline)
    /\ tokens = <<>>
    /\ start_positions = <<>>
    /\ min_i = 0
    /\ tried = <<>>
    /\ emitted = <<>>
    /\ check_overlap = TRUE
    /\ RedactIdle
    /\ ResolveIdle
    /\ RegexpIdle
    /\ MarkupIdle

\* annotate, lines 158-166.
LookupStart ==
    /\ pc = "annotate"
    /\ tokens' = Tokenize(text)
    /\ \E order \in Perms(token_lookup(tokens', start_tokens, matching_pipeline)) :
          start_positions' = StartPositions(tokens', order)
    /\ min_i' = 0
    /\ emitted' = <<>>
    /\ pc' = "scan"
    /\ UNCHANGED <<otherVars, text, annotations, redactVars, resolveVars, regexpVars,
                   markupVars, lookup_values,
                   matching_pipeline, overlapping, trie, start_tokens, tried>>

\* One iteration of the loop of annotate, lines 168-194.
LookupStep ==
    /\ pc = "scan"
    /\ start_positions # <<>>
    /\ LET i == Head(start_positions)
           m == longest_matching_prefix(trie, matching_pipeline,
                                        TokenTexts(tokens), i)
       IN  \/ /\ i < min_i
              /\ UNCHANGED <<otherVars, min_i, tried, emitted>>
           \/ /\ i >= min_i
              /\ ~m.found
              /\ tried' = Append(tried, i)
              /\ UNCHANGED <<otherVars, min_i, emitted>>
           \/ /\ i >= min_i
              /\ m.found
              /\ LET start_token == tokens[i + 1]
                     end_token == tokens[EndTokenIndex(i, m.length) + 1]
                 IN  emitted' = Append(emitted,
                        TokenAnnotation(
                            Slice(text, start_token.start_char, end_token.end_char),
                            start_token, end_token))
              /\ tried' = Append(tried, i)
              /\ min_i' = IF ~overlapping THEN SkipAhead(i, m.length) ELSE min_i
    /\ start_positions' = Tail(start_positions)
    /\ UNCHANGED <<otherVars, pc, text, annotations, redactVars, resolveVars, regexpVars,
                   markupVars, lookup_values,
                   matching_pipeline, overlapping, trie, start_tokens, tokens>>

\* annotate returns the list.
LookupReturn ==
    /\ pc = "scan"
    /\ start_positions = <<>>
    /\ pc' = "annotated"
    /\ UNCHANGED <<otherVars, text, annotations, redactVars, resolveVars, lookupVars,
                   annotateVars,
                   regexpVars, markupVars>>

LookupNext == LookupStart \/ LookupStep \/ LookupReturn

SpecLookup == LookupInit /\ [][LookupNext]_vars

(***************************************************************************)
(* Properties of MultiTokenLookupAnnotator.annotate.                       *)
(***************************************************************************)
\* The inserted phrases: each lookup value tokenized and normalized once.
InsertedPhrases ==
    {[k \in 1..Len(TokenTexts(Tokenize(v))) |->
          ApplyPipeline(matching_pipeline, TokenTexts(Tokenize(v))[k])] :
        v \in lookup_values} \ {<<>>}

NormalizedTokens ==
    [k \in 1..Len(tokens) |-> ApplyPipeline(matching_pipeline, tokens[k].text)]

\* The largest n such that tokens i..i+n-1 (from 0) of the normalized token
\* texts norm are one of phrases, or 0.
LongestPhraseAt(phrases, norm, i) ==
    LET ns == {n \in 1..(Len(norm) - i) : SubSeq(norm, i + 1, i + n) \in phrases}
    IN  IF ns = {} THEN 0 ELSE CHOOSE n \in ns : \A m \in ns : m <= n

EmittedAt(i) == {n \in 1..Len(emitted) : emitted[n].start_token = tokens[i + 1]}

\* C6: at every start position given to the trie, the annotation emitted covers
\* exactly the tokens of the longest inserted phrase that starts there, and
\* none is emitted where no inserted phrase starts.
C6_LongestPhraseAnnotated ==
    LET phrases == InsertedPhrases
        norm == NormalizedTokens
    IN  \A j \in 1..Len(tried) :
            LET i == tried[j]
                n == LongestPhraseAt(phrases, norm, i)
            IN  IF n = 0 THEN EmittedAt(i) = {}
                ELSE /\ Cardinality(EmittedAt(i)) = 1
                     /\ \A e \in EmittedAt(i) :
                           /\ emitted[e].end_token = tokens[i + n]
                           /\ emitted[e].start_char = tokens[i + 1].start_char
                           /\ emitted[e].end_char = tokens[i + n].end_char

C6_Witness ==
    /\ pc = "annotated"
    /\ \E j \in 1..Len(tried) :
          /\ LongestPhraseAt(InsertedPhrases, NormalizedTokens, tried[j]) >= 2
          /\ <<NormalizedTokens[tried[j] + 1]>> \in InsertedPhrases

\* C7: with overlapping = False the annotations come in strictly increasing
\* start_char order and do not overlap, no match starts before the token after
\* the previous match, and min_i moves only when a match is found.
C7_LeftToRightNoOverlap ==
    ~overlapping =>
        /\ \A n \in 1..(Len(emitted) - 1) :
              /\ emitted[n].start_char < emitted[n + 1].start_char
              /\ emitted[n].end_char <= emitted[n + 1].start_char
              /\ token_index(tokens, emitted[n + 1].start_token)
                    > token_index(tokens, emitted[n].end_token)
        /\ min_i = IF emitted = <<>> THEN 0
                   ELSE token_index(tokens, emitted[Len(emitted)].end_token) + 1

C7_Witness ==
    /\ pc = "annotated"
    /\ ~overlapping
    /\ Len(emitted) >= 1
    /\ Len(tried) > Len(emitted)
    /\ Cardinality(token_lookup(tokens, start_tokens, matching_pipeline))
          > Len(tried)

(***************************************************************************)
(* RegexpAnnotator.                                                        *)
(*                                                                         *)
(* A pattern is a sequence of one or two atoms, each a literal character   *)
(* under a greedy quantifier: c, c? or c*. At most one atom is wrapped in  *)
(* a capturing group before the quantifier applies: (c), (c)? or (c)*.     *)
(***************************************************************************)
Atoms == [ch : Chars, q : {"one", "opt", "star"}, group : BOOLEAN]

GroupCount(pattern) == Cardinality({k \in 1..Len(pattern) : pattern[k].group})

Patterns ==
    {p \in {<<x>> : x \in Atoms} \cup {<<x, y>> : x \in Atoms, y \in Atoms} :
        GroupCount(p) <= 1}

\* How many times in a row character c stands in txt from index pos (from 0).
RECURSIVE Run(_, _, _)
Run(txt, c, pos) ==
    IF pos < Len(txt) /\ txt[pos + 1] = c THEN 1 + Run(txt, c, pos + 1) ELSE 0

NoSpan == <<-1, -1>>
Failed == [ok |-> FALSE, end |-> 0, group |-> NoSpan]

\* re's backtracking match of the atoms k.. of the pattern at pos: a greedy
\* quantifier takes the largest count with which the rest still matches. A
\* group holds the span of its last repetition, and (-1, -1) if it had none.
RECURSIVE MatchAtoms(_, _, _, _)
MatchAtoms(pattern, txt, k, pos) ==
    IF k > Len(pattern) THEN [ok |-> TRUE, end |-> pos, group |-> NoSpan]
    ELSE LET atom == pattern[k]
             run == Run(txt, atom.ch, pos)
             lo == IF atom.q = "one" THEN 1 ELSE 0
             hi == IF atom.q = "star" THEN run ELSE Min(run, 1)
             counts == {c \in lo..hi : MatchAtoms(pattern, txt, k + 1, pos + c).ok}
         IN  IF counts = {} THEN Failed
             ELSE LET c == CHOOSE x \in counts : \A y \in counts : y <= x
                      rest == MatchAtoms(pattern, txt, k + 1, pos + c)
                  IN  [ok |-> TRUE, end |-> rest.end,
                       group |-> IF ~atom.group THEN rest.group
                                 ELSE IF c >= 1 THEN <<pos + c - 1, pos + c>>
                                 ELSE NoSpan]

\* The start positions from `from` on at which the pattern matches.
MatchStarts(pattern, txt, from) ==
    {s \in from..Len(txt) : MatchAtoms(pattern, txt, 1, s).ok}

\* match.span(group)
MatchSpan(m, start, group) == IF group = 0 THEN <<start, m.end>> ELSE m.group

\* The text of a group that took no part in the match: None.
None == <<"None">>

\* match.group(group)
MatchGroup(txt, m, start, group) ==
    LET span == MatchSpan(m, start, group)
    IN  IF span = NoSpan THEN None ELSE SubSeq(txt, span[1] + 1, span[2])

\* Annotation(text=..., start_char=..., end_char=..., tag=..., priority=...)
Annotation5(txt, start_char, end_char) ==
    Annotation(txt, start_char, end_char, AnnotatorTag, AnnotatorPriority)

\* doc.get_tokens().get_words(matching_pipeline)
get_words(toks, pipeline) ==
    {ApplyPipeline(pipeline, toks[k].text) : k \in 1..Len(toks)}

\* annotate, lines 239-244: the pre_tokens test that returns [] early.
PreTokensExclude(pre, txt) ==
    /\ pre.given
    /\ get_words(Tokenize(txt), <<"LowercaseString">>) \cap pre.words = {}

RegexpInit ==
    /\ OtherIdle
    /\ pc = "annotate"
    /\ text \in StringsUpTo(MaxTextLen)
    /\ annotations = {}
    /\ regexp_pattern \in Patterns
    /\ capturing_group \in 0..GroupCount(regexp_pattern)
    /\ pre_tokens \in {[given |-> FALSE, words |-> {}],
                        [given |-> TRUE, words |-> {<<"b">>}]}
    /\ scan = 0
    /\ emitted = <<>>
    /\ check_overlap = TRUE
    /\ RedactIdle
    /\ ResolveIdle
    /\ LookupIdle
    /\ MarkupIdle

\* annotate, lines 239-246.
RegexpStart ==
    /\ pc = "annotate"
    /\ pc' = IF PreTokensExclude(pre_tokens, text) THEN "annotated" ELSE "finditer"
    /\ emitted' = <<>>
    /\ scan' = 0
    /\ UNCHANGED <<otherVars, text, annotations, redactVars, resolveVars, lookupVars,
                   markupVars, regexp_pattern, capturing_group, pre_tokens>>

\* One iteration of the loop over finditer, lines 248-258: the leftmost match
\* from scan on. The search for the next match starts where this one ends,
\* and one character further when this one is empty.
RegexpStep ==
    /\ pc = "finditer"
    /\ MatchStarts(regexp_pattern, text, scan) # {}
    /\ LET starts == MatchStarts(regexp_pattern, text, scan)
           start == CHOOSE s \in starts : \A t \in starts : s <= t
           m == MatchAtoms(regexp_pattern, text, 1, start)
           span == MatchSpan(m, start, capturing_group)
       IN  /\ emitted' = Append(emitted,
                  Annotation5(MatchGroup(text, m, start, capturing_group),
                              span[1], span[2]))
           /\ scan' = IF m.end = start THEN start + 1 ELSE m.end
    /\ UNCHANGED <<otherVars, pc, text, annotations, redactVars, resolveVars, lookupVars,
                   markupVars, regexp_pattern, capturing_group, pre_tokens>>

\* finditer is exhausted and annotate returns the list.
RegexpReturn ==
    /\ pc = "finditer"
    /\ MatchStarts(regexp_pattern, text, scan) = {}
    /\ pc' = "annotated"
    /\ UNCHANGED <<otherVars, text, annotations, redactVars, resolveVars, lookupVars,
                   markupVars, regexpVars, annotateVars>>

RegexpNext == RegexpStart \/ RegexpStep \/ RegexpReturn

SpecRegexp == RegexpInit /\ [][RegexpNext]_vars

\* C8: every annotation an annotator emits has start_char < end_char and a
\* text equal to doc.text[start_char:end_char].
C8_EmittedAnnotationsValid ==
    \A n \in 1..Len(emitted) :
        /\ emitted[n].start_char < emitted[n].end_char
        /\ emitted[n].text =
              Slice(text, emitted[n].start_char, emitted[n].end_char)

(***************************************************************************)
(* annotate_doc.                                                           *)
(***************************************************************************)
\* annotate_doc reads the characters of doc.text only through slices, so one
\* text of each length, of pairwise different characters, stands for all.
Letters == <<"a", "b", "A", "B", "p", "q", "P", "Q">>
MarkupTexts == {SubSeq(Letters, 1, n) : n \in 0..Min(MaxTextLen, Len(Letters))}

\* Each tag comes from one annotator, which gives it one priority.
TagPriority(tag) == IF tag = <<"q">> THEN 1 ELSE 0

MarkupAnnotations(txt) ==
    {a \in ValidAnnotations(txt, {0, 1}) : a.priority = TagPriority(a.tag)}

\* sorted(doc.annotations, key=lambda anno: anno.end_char - anno.start_char)
AnnosFromShortest(order) ==
    StableSort(order, [a \in Range(order) |-> a.end_char - a.start_char])

\* idx_to_anno_starts[idx]: the annotations that start at idx, in the order
\* of annos_from_shortest.
RECURSIVE AnnoStarts(_, _)
AnnoStarts(annos, idx) ==
    IF annos = <<>> THEN <<>>
    ELSE (IF Head(annos).start_char = idx THEN <<Head(annos)>> ELSE <<>>)
            \o AnnoStarts(Tail(annos), idx)

\* idx_to_anno_ends[idx]
RECURSIVE AnnoEnds(_, _)
AnnoEnds(annos, idx) ==
    IF annos = <<>> THEN <<>>
    ELSE (IF Head(annos).end_char = idx THEN <<Head(annos)>> ELSE <<>>)
            \o AnnoEnds(Tail(annos), idx)

\* sorted(set(idx_to_anno_starts).union(idx_to_anno_ends))
MarkupIndices(annos) ==
    LET idxs == {annos[k].start_char : k \in 1..Len(annos)}
                    \cup {annos[k].end_char : k \in 1..Len(annos)}
        nth(k) == CHOOSE i \in idxs : Cardinality({j \in idxs : j <= i}) = k
    IN  [k \in 1..Cardinality(idxs) |-> nth(k)]

Reverse(s) == [k \in 1..Len(s) |-> s[Len(s) + 1 - k]]

\* Starting annotations taken in the order of the list.
StartingOrderUnreversed(starts) == starts

\* reversed(idx_to_anno_starts[idx])
StartingOrder(starts) == Reverse(starts)

\* f'x{anno.priority}' if debug and anno.priority else ''
Prio(dbg, a) ==
    IF dbg /\ a.priority # 0 THEN <<"x">> \o IntToStr(a.priority) ELSE <<>>

CloseMarker(dbg, a) == <<"<", "/">> \o Upper(a.tag) \o Prio(dbg, a) \o <<">">>
OpenMarker(dbg, a) == <<"<">> \o Upper(a.tag) \o Prio(dbg, a) \o <<">">>

\* A chunk: its string, whether it is text or a marker, and for a marker the
\* annotation that the loop variable held.
TextChunk(str) == [kind |-> "text", s |-> str, anno |-> {}]
CloseChunk(dbg, a) == [kind |-> "close", s |-> CloseMarker(dbg, a), anno |-> {a}]
OpenChunk(dbg, a) == [kind |-> "open", s |-> OpenMarker(dbg, a), anno |-> {a}]

\* A slice that starts at the beginning of the text.
TextSliceFromStart(txt, last, idx) == Slice(txt, 0, idx)

\* doc.text[last_idx:idx]
TextSlice(txt, last, idx) == Slice(txt, last, idx)

\* "".join(chunks)
RECURSIVE Join(_)
Join(cs) == IF cs = <<>> THEN <<>> ELSE Head(cs).s \o Join(Tail(cs))

MarkupInit ==
    /\ OtherIdle
    /\ pc = "markup"
    /\ text \in MarkupTexts
    /\ annotations \in SetsUpTo(MarkupAnnotations(text), MaxAnnos)
    /\ debug \in BOOLEAN
    /\ annos_from_shortest = <<>>
    /\ markup_indices = <<>>
    /\ chunks = <<>>
    /\ last_idx = 0
    /\ check_overlap = TRUE
    /\ RedactIdle
    /\ ResolveIdle
    /\ LookupIdle
    /\ AnnotateIdle
    /\ RegexpIdle

\* annotate_doc, lines 51-61.
MarkupStart ==
    /\ pc = "markup"
    /\ \E order \in Perms(annotations) :
          annos_from_shortest' = AnnosFromShortest(order)
    /\ markup_indices' = MarkupIndices(annos_from_shortest')
    /\ chunks' = <<>>
    /\ last_idx' = 0
    /\ pc' = "chunks"
    /\ UNCHANGED <<otherVars, text, annotations, redactVars, resolveVars, lookupVars,
                   annotateVars, regexpVars, debug>>

\* One iteration of the loop over markup_indices, lines 62-72.
MarkupStep ==
    /\ pc = "chunks"
    /\ markup_indices # <<>>
    /\ LET idx == Head(markup_indices)
           ends == AnnoEnds(annos_from_shortest, idx)
           starts == StartingOrder(AnnoStarts(annos_from_shortest, idx))
       IN  /\ chunks' = chunks
                  \o <<TextChunk(TextSlice(text, last_idx, idx))>>
                  \o [k \in 1..Len(ends) |-> CloseChunk(debug, ends[k])]
                  \o [k \in 1..Len(starts) |-> OpenChunk(debug, starts[k])]
           /\ last_idx' = idx
    /\ markup_indices' = Tail(markup_indices)
    /\ UNCHANGED <<otherVars, pc, text, annotations, redactVars, resolveVars, lookupVars,
                   annotateVars, regexpVars, debug, annos_from_shortest>>

\* Lines 73-74: the rest of the text, and the chunks joined.
MarkupFinish ==
    /\ pc = "chunks"
    /\ markup_indices = <<>>
    /\ chunks' = Append(chunks, TextChunk(SliceFrom(text, last_idx)))
    /\ pc' = "rendered"
    /\ UNCHANGED <<otherVars, text, annotations, redactVars, resolveVars, lookupVars,
                   annotateVars, regexpVars, debug, annos_from_shortest,
                   markup_indices, last_idx>>

MarkupNext == MarkupStart \/ MarkupStep \/ MarkupFinish

SpecMarkup == MarkupInit /\ [][MarkupNext]_vars

(***************************************************************************)
(* Properties of annotate_doc.                                             *)
(***************************************************************************)
\* The chunks of kind text joined: the output with its markers deleted.
RECURSIVE TextOnly(_)
TextOnly(cs) ==
    IF cs = <<>> THEN <<>>
    ELSE (IF Head(cs).kind = "text" THEN Head(cs).s ELSE <<>>) \o TextOnly(Tail(cs))

\* The number of characters of doc.text that stand before chunk k.
ChunkPos(cs, k) == Len(TextOnly(SubSeq(cs, 1, k - 1)))

MarkersAt(cs, kind, str, i) ==
    {k \in 1..Len(cs) : cs[k].kind = kind /\ cs[k].s = str /\ ChunkPos(cs, k) = i}

\* C9: the output holds, per annotation, one opening marker at start_char and
\* one closing marker at end_char and no other marker, and with the markers
\* deleted it is doc.text.
C9_MarkupKeepsText ==
    pc = "rendered" =>
        /\ TextOnly(chunks) = text
        /\ Len(Join(chunks)) = Len(text)
              + Len(Join([k \in 1..Len(annos_from_shortest) |->
                            OpenChunk(debug, annos_from_shortest[k])]))
              + Len(Join([k \in 1..Len(annos_from_shortest) |->
                            CloseChunk(debug, annos_from_shortest[k])]))
        /\ Cardinality({k \in 1..Len(chunks) : chunks[k].kind # "text"})
              = 2 * Cardinality(annotations)
        /\ \A a \in annotations :
              /\ Cardinality(MarkersAt(chunks, "open", OpenMarker(debug, a),
                                        a.start_char))
                    = Cardinality({b \in annotations :
                          /\ b.start_char = a.start_char
                          /\ OpenMarker(debug, b) = OpenMarker(debug, a)})
              /\ Cardinality(MarkersAt(chunks, "close", CloseMarker(debug, a),
                                        a.end_char))
                    = Cardinality({b \in annotations :
                          /\ b.end_char = a.end_char
                          /\ CloseMarker(debug, b) = CloseMarker(debug, a)})

C9_Witness ==
    /\ pc = "rendered"
    /\ has_overlap(annotations)
    /\ Cardinality(annotations) = MaxAnnos
    /\ \E a \in annotations : a.start_char > 0 /\ a.end_char < Len(text)

SpanLength(a) == a.end_char - a.start_char

\* Every two annotations are disjoint or one lies inside the other.
DisjointOrNested(annos) ==
    \A a \in annos : \A b \in annos :
        \/ a.end_char <= b.start_char
        \/ b.end_char <= a.start_char
        \/ a.start_char <= b.start_char /\ b.end_char <= a.end_char
        \/ b.start_char <= a.start_char /\ a.end_char <= b.end_char

\* Reading the chunks from the left with the annotations opened and not yet
\* closed on a stack: every closing marker closes the top of the stack.
RECURSIVE WellNested(_, _)
WellNested(cs, stack) ==
    IF cs = <<>> THEN stack = <<>>
    ELSE IF Head(cs).kind = "open"
         THEN WellNested(Tail(cs), <<Head(cs).anno>> \o stack)
    ELSE IF Head(cs).kind = "close"
         THEN /\ stack # <<>>
              /\ Head(stack) = Head(cs).anno
              /\ WellNested(Tail(cs), Tail(stack))
    ELSE WellNested(Tail(cs), stack)

\* C10: at a boundary index no opening marker precedes a closing marker,
\* closing markers come shortest span first and opening markers longest span
\* first; and the markup of annotations that are pairwise disjoint or nested
\* is well nested.
C10_ClosingFirstWellNested ==
    pc = "rendered" =>
        LET pos == [k \in 1..Len(chunks) |-> ChunkPos(chunks, k)]
            markers == {k \in 1..Len(chunks) : chunks[k].kind # "text"}
        IN  /\ \A k \in markers : \A l \in markers :
                  (k < l /\ pos[k] = pos[l]) =>
                      /\ ~(chunks[k].kind = "open" /\ chunks[l].kind = "close")
                      /\ (chunks[k].kind = "close" /\ chunks[l].kind = "close") =>
                            \A a \in chunks[k].anno : \A b \in chunks[l].anno :
                                SpanLength(a) <= SpanLength(b)
                      /\ (chunks[k].kind = "open" /\ chunks[l].kind = "open") =>
                            \A a \in chunks[k].anno : \A b \in chunks[l].anno :
                                SpanLength(a) >= SpanLength(b)
            /\ DisjointOrNested(annotations) => WellNested(chunks, <<>>)

C10_Witness ==
    /\ pc = "rendered"
    /\ DisjointOrNested(annotations)
    /\ \E a \in annotations : \E b \in annotations : \E c \in annotations :
          /\ a.tag # b.tag
          /\ a.start_char = b.start_char
          /\ a.end_char = b.end_char
          /\ c.start_char = a.start_char
          /\ c.end_char < a.end_char

(***************************************************************************)
(* LookupSet and lookup_set_to_trie.                                       *)
(***************************************************************************)
\* LookupSet: the raw items, and the pipeline that normalizes an item before
\* any comparison.
LookupSet(items, pipeline) == [items |-> items, matching_pipeline |-> pipeline]

\* LookupSet.items()
Items(ls) == ls.items

\* item in lookup_set: the normalized item is among the normalized items.
LookupSetContains(ls, item) ==
    ApplyPipeline(ls.matching_pipeline, item)
        \in {ApplyPipeline(ls.matching_pipeline, x) : x \in ls.items}

\* LookupTrie(matching_pipeline=...)
LookupTrie(pipeline) ==
    [matching_pipeline |-> pipeline, nodes |-> EmptyTrie.nodes,
     terminal |-> EmptyTrie.terminal]

\* trie.add_item(item), with the pipeline of the trie.
add_item(t, item) ==
    LET added == TrieAddItem(t, t.matching_pipeline, item)
    IN  [matching_pipeline |-> t.matching_pipeline, nodes |-> added.nodes,
         terminal |-> added.terminal]

\* item in trie: the walk along the normalized item ends on a terminal node.
TrieContains(t, item) ==
    [k \in 1..Len(item) |-> ApplyPipeline(t.matching_pipeline, item[k])]
        \in t.terminal

\* The lookup sets of up to three items.
LookupSets ==
    LET pool == StringsOver(DocChars, MaxPhraseLen)
    IN  {LookupSet(items, pipeline) :
            items \in {{}} \cup {{u, v, w} : u \in pool, v \in pool, w \in pool},
            pipeline \in {<<>>, <<"LowercaseString">>}}

ConvertInit ==
    /\ pc = "convert"
    /\ lookup_set \in LookupSets
    /\ todo = {}
    /\ new_trie = LookupTrie(<<>>)
    /\ text = <<>>
    /\ annotations = {}
    /\ check_overlap = TRUE
    /\ AllTextIdle
    /\ InputIdle
    /\ ProcessIdle
    /\ RedactIdle
    /\ ResolveIdle
    /\ LookupIdle
    /\ AnnotateIdle
    /\ RegexpIdle
    /\ MarkupIdle

\* lookup_set_to_trie, line 91.
ConvertStart ==
    /\ pc = "convert"
    /\ new_trie' = LookupTrie(lookup_set.matching_pipeline)
    /\ todo' = Items(lookup_set)
    /\ pc' = "items"
    /\ UNCHANGED <<text, annotations, redactVars, resolveVars, lookupVars,
                   annotateVars, regexpVars, markupVars, processVars,
                   metadata, redactor, input, lookup_set>>

\* Lines 93-94: one item of the set, in the order the set gives them.
ConvertStep ==
    /\ pc = "items"
    /\ \E item \in todo :
          /\ new_trie' = add_item(new_trie, TokenTexts(Tokenize(item)))
          /\ todo' = todo \ {item}
    /\ UNCHANGED <<pc, text, annotations, redactVars, resolveVars, lookupVars,
                   annotateVars, regexpVars, markupVars, processVars,
                   metadata, redactor, input, lookup_set>>

\* Line 96.
ConvertReturn ==
    /\ pc = "items"
    /\ todo = {}
    /\ pc' = "converted"
    /\ UNCHANGED <<text, annotations, redactVars, resolveVars, lookupVars,
                   annotateVars, regexpVars, markupVars, otherVars>>

ConvertNext == ConvertStart \/ ConvertStep \/ ConvertReturn

SpecConvert == ConvertInit /\ [][ConvertNext]_vars

(***************************************************************************)
(* Properties of lookup_set_to_trie.                                       *)
(***************************************************************************)
\* The strings that are one token: their tokenization is the string itself.
SingleTokenStrings ==
    {s \in StringsOver(DocChars, MaxPhraseLen) :
        TokenTexts(Tokenize(s)) = <<s>>}

\* The tokenization of an item, each token normalized once.
NormalizedTokenization(ls, item) ==
    LET texts == TokenTexts(Tokenize(item))
    IN  [k \in 1..Len(texts) |-> ApplyPipeline(ls.matching_pipeline, texts[k])]

\* C11: the returned trie has the pipeline of the set, its terminal paths
\* are the normalized tokenizations of the items of the set, and it matches
\* a single-token string exactly when the set contains that string.
C11_TrieEquivalentToSet ==
    pc = "converted" =>
        /\ new_trie.matching_pipeline = lookup_set.matching_pipeline
        /\ new_trie.terminal
              = {NormalizedTokenization(lookup_set, item) : item \in Items(lookup_set)}
        /\ \A s \in SingleTokenStrings :
              TrieContains(new_trie, <<s>>) <=> LookupSetContains(lookup_set, s)

(***************************************************************************)
(* RedactAllText.                                                          *)
(***************************************************************************)
REDACTED == <<"R", "E", "D", "A", "C", "T", "E", "D">>

\* RedactAllText(open_char, close_char)
RedactAllText(open, close) == [open_char |-> open, close_char |-> close]

\* A redactor that keeps a text that has no annotations.
RedactAllTextKeepsUnannotated(self, txt, annos, meta) ==
    IF annos = {} THEN txt ELSE self.open_char \o REDACTED \o self.close_char

\* RedactAllText.redact(text, annotations, metadata)
RedactAllTextRedact(self, txt, annos, meta) ==
    self.open_char \o REDACTED \o self.close_char

\* doc.metadata: none, or a MetaData with or without items.
MetaDataValues == {"none", "empty", "items"}

AllTextInit ==
    /\ pc = "process"
    /\ text \in StringsUpTo(MaxTextLen)
    /\ annotations \in SetsUpTo(ValidAnnotations(text, {0}), 2)
    /\ metadata \in MetaDataValues
    /\ redactor \in {RedactAllText(open, close) :
                         open \in {<<"[">>, <<"<">>}, close \in {<<"]">>, <<>>}}
    /\ check_overlap = TRUE
    /\ ConvertIdle
    /\ InputIdle
    /\ ProcessIdle
    /\ RedactIdle
    /\ ResolveIdle
    /\ LookupIdle
    /\ AnnotateIdle
    /\ RegexpIdle
    /\ MarkupIdle

\* Redactor.process, line 30.
AllTextRedact ==
    /\ pc = "process"
    /\ out' = RedactAllTextRedact(redactor, text, annotations, metadata)
    /\ pc' = "set"
    /\ UNCHANGED <<text, annotations, check_overlap, counter, replacement,
                   pending, deid, resolveVars, lookupVars, annotateVars,
                   regexpVars, markupVars, otherVars>>

\* Redactor.process, line 31.
AllTextSet ==
    /\ pc = "set"
    /\ deid' = SomeText(out)
    /\ pc' = "processed"
    /\ UNCHANGED <<text, annotations, check_overlap, counter, replacement,
                   pending, out, resolveVars, lookupVars, annotateVars,
                   regexpVars, markupVars, otherVars>>

AllTextNext == AllTextRedact \/ AllTextSet

SpecAllText == AllTextInit /\ [][AllTextNext]_vars

\* C12: whatever the text, the annotations and the metadata are, redact
\* returns open_char + "REDACTED" + close_char, and that is the text the
\* document is given.
C12_AllTextRedacted ==
    /\ pc \in {"set", "processed"} =>
          out = redactor.open_char
                    \o <<"R", "E", "D", "A", "C", "T", "E", "D">>
                    \o redactor.close_char
    /\ pc = "processed" => deid = SomeText(out)

C12_Witness ==
    /\ pc = "processed"
    /\ text = <<>>
    /\ annotations = {}
    /\ metadata = "none"

(***************************************************************************)
(* Annotator.process.                                                      *)
(***************************************************************************)
\* start_token=None, end_token=None
NoToken == [text |-> <<"None">>, start_char |-> -1, end_char |-> -1]

\* Annotation(text, start_char, end_char, tag, priority, start_token,
\* end_token), the last two None unless the annotator gives them.
FullAnnotation(txt, start_char, end_char, tag, priority, with_tokens) ==
    [text |-> Slice(txt, start_char, end_char), start_char |-> start_char,
     end_char |-> end_char, tag |-> tag, priority |-> priority,
     start_token |-> IF with_tokens
                     THEN Token(Slice(txt, start_char, start_char + 1),
                                start_char, start_char + 1)
                     ELSE NoToken,
     end_token |-> IF with_tokens
                   THEN Token(Slice(txt, end_char - 1, end_char),
                              end_char - 1, end_char)
                   ELSE NoToken]

\* Annotation.__eq__: the fields that take part in equality.
AnnotationKey(a) == <<a.text, a.start_char, a.end_char, a.tag, a.priority>>

\* AnnotationSet.update(list): an element equal to one that the set holds is
\* not added.
RECURSIVE AnnotationSetUpdate(_, _)
AnnotationSetUpdate(annos, list) ==
    IF list = <<>> THEN annos
    ELSE AnnotationSetUpdate(
             IF \E b \in annos : AnnotationKey(b) = AnnotationKey(Head(list))
             THEN annos ELSE annos \cup {Head(list)},
             Tail(list))

\* The spans of a text.
Spans(txt) == {<<s, e>> : s \in 0..Len(txt), e \in 0..Len(txt)} \ 
                  {<<s, e>> \in (0..Len(txt)) \X (0..Len(txt)) : s >= e}

\* The lists of up to two spans, repeats included.
SpanLists(txt) ==
    {<<>>} \cup {<<x>> : x \in Spans(txt)}
           \cup {<<x, y>> : x \in Spans(txt), y \in Spans(txt)}

\* An annotator: its tag and priority, and what its annotate finds in the
\* text of a document (annotate reads the text, the tokens and the metadata
\* of the document, never its annotations).
AnnotatorsOf(txt) ==
    {[tag |-> k.tag, priority |-> TagPriority(k.tag),
      with_tokens |-> k.with_tokens, finds |-> f] :
        k \in {[tag |-> <<"p">>, with_tokens |-> TRUE],
                [tag |-> <<"p">>, with_tokens |-> FALSE],
                [tag |-> <<"q">>, with_tokens |-> FALSE]},
        f \in SpanLists(txt)}

\* self.annotate(doc)
annotate(self, txt) ==
    [k \in 1..Len(self.finds) |->
        FullAnnotation(txt, self.finds[k][1], self.finds[k][2], self.tag,
                       self.priority, self.with_tokens)]

\* A process that forgets what the set held.
AnnotatorProcessReplaces(annos, list) == AnnotationSetUpdate({}, list)

\* process, line 36: doc.annotations.update(self.annotate(doc))
AnnotatorProcess(annos, list) == AnnotationSetUpdate(annos, list)

ProcessInit ==
    /\ pc = "pipeline"
    /\ text \in {SubSeq(Letters, 1, n) : n \in 0..MaxResolveLen}
    /\ before \in {{}} \cup
          {{FullAnnotation(text, x[1], x[2], <<"p">>, 0, FALSE)} : x \in Spans(text)}
    /\ annotations = before
    /\ annotators \in {{}} \cup {{a, b} : a \in AnnotatorsOf(text),
                                           b \in AnnotatorsOf(text)}
    /\ returned = <<>>
    /\ check_overlap = TRUE
    /\ ConvertIdle
    /\ AllTextIdle
    /\ InputIdle
    /\ RedactIdle
    /\ ResolveIdle
    /\ LookupIdle
    /\ AnnotateIdle
    /\ RegexpIdle
    /\ MarkupIdle

\* One call of Annotator.process, by any annotator that has not run yet.
ProcessCall ==
    /\ pc = "pipeline"
    /\ \E self \in annotators :
          LET list == annotate(self, text)
          IN  /\ annotations' = AnnotatorProcess(annotations, list)
              /\ returned' = Append(returned,
                      [annotator |-> self, list |-> list, prior |-> annotations])
              /\ annotators' = annotators \ {self}
    /\ UNCHANGED <<pc, text, redactVars, resolveVars, lookupVars, annotateVars,
                   regexpVars, markupVars, convertVars, metadata, redactor,
                   input, before>>

ProcessNext == ProcessCall

SpecProcess == ProcessInit /\ [][ProcessNext]_vars

Keys(annos) == {AnnotationKey(a) : a \in annos}

\* C13: the set holds what it held before the calls and what the calls
\* returned, and nothing else; what a call found in the set is still in it,
\* unaltered; no two elements are equal; and the set is a function of the
\* annotators that ran, whatever their order.
C13_ProcessOnlyAdds ==
    LET ran == {returned[k].annotator : k \in 1..Len(returned)}
    IN  /\ Keys(annotations)
              = Keys(before) \cup
                UNION {Keys(Range(returned[k].list)) : k \in 1..Len(returned)}
        /\ before \subseteq annotations
        /\ \A k \in 1..Len(returned) : returned[k].prior \subseteq annotations
        /\ \A a \in annotations : \A b \in annotations :
              AnnotationKey(a) = AnnotationKey(b) => a = b
        /\ Keys(annotations)
              = Keys(before) \cup
                UNION {Keys(Range(annotate(self, text))) : self \in ran}

C13_Witness ==
    /\ Len(returned) = 2
    /\ before # {}
    /\ \E a \in Range(returned[1].list) : \E b \in Range(returned[2].list) :
          AnnotationKey(a) = AnnotationKey(b) /\ a # b
    /\ \E b \in Range(returned[2].list) : b \notin returned[2].prior /\ b \in annotations

(***************************************************************************)
(* The start-token prefilter of MultiTokenLookupAnnotator.                 *)
(***************************************************************************)
\* What the trie finds at token index i of the document.
PrefixAt(i) ==
    longest_matching_prefix(trie, matching_pipeline, TokenTexts(tokens), i)

\* annotate with every token index from i on as a start position, in
\* ascending order, and mi as min_i.
RECURSIVE AnnotateEveryIndex(_, _)
AnnotateEveryIndex(i, mi) ==
    IF i >= Len(tokens) THEN <<>>
    ELSE IF i < mi \/ ~PrefixAt(i).found THEN AnnotateEveryIndex(i + 1, mi)
    ELSE LET k == PrefixAt(i).length
             first == tokens[i + 1]
             last == tokens[i + k]
         IN  <<[text |-> Slice(text, first.start_char, last.end_char),
                start_char |-> first.start_char, end_char |-> last.end_char,
                start_token |-> first, end_token |-> last,
                tag |-> AnnotatorTag, priority |-> AnnotatorPriority]>>
             \o AnnotateEveryIndex(i + 1, IF overlapping THEN mi ELSE i + k)

\* C14: annotate returns what it would return with every token index as a
\* start position; where the trie has a matching prefix the token is one of
\* the start tokens after normalization, and the match has a token.
C14_PrefilterLosesNoMatch ==
    pc = "annotated" =>
        /\ emitted = AnnotateEveryIndex(0, 0)
        /\ \A i \in 0..(Len(tokens) - 1) :
              PrefixAt(i).found =>
                  /\ ApplyPipeline(matching_pipeline, tokens[i + 1].text)
                        \in start_tokens
                  /\ PrefixAt(i).length >= 1
                  /\ i + PrefixAt(i).length - 1 >= i

C14_Witness ==
    /\ pc = "annotated"
    /\ matching_pipeline # <<>>
    /\ <<>> \in lookup_values
    /\ Len(emitted) >= 1
    /\ \E i \in 0..(Len(tokens) - 1) : ~PrefixAt(i).found
    /\ \E v \in lookup_values : v # <<>> /\ ApplyPipeline(matching_pipeline, v) # v

(***************************************************************************)
(* SimpleRedactor.redact over the orders of iteration.                     *)
(***************************************************************************)
\* The loop of _replace_annotations_in_text, run to its end.
RECURSIVE ReplaceAll(_, _, _)
ReplaceAll(txt, sorted_annotations, rep) ==
    IF sorted_annotations = <<>> THEN txt
    ELSE ReplaceAll(Splice(txt, Head(sorted_annotations), rep),
                    Tail(sorted_annotations), rep)

\* What redact returns when the set is iterated in the given order.
RedactedInOrder(txt, order) ==
    LET d == TextToCounter(order)
        rep == [a \in Range(order) |-> Label(a.tag, d[a.text])]
    IN  ReplaceAll(txt, SortedEndCharDesc(order), rep)

\* One order of iteration over the set, the same for every run.
FixedOrder(annos) == CHOOSE order \in Perms(annos) : TRUE

\* C15: on an overlap-free set, whatever the order in which redact iterated
\* over the set, the redacted text is the one that one fixed order gives, so
\* that all orders give the same; and text and set are as they were passed.
C15_RedactOrderIndependent ==
    (pc = "redacted" /\ ~has_overlap(annotations)) =>
        /\ deid.text = RedactedInOrder(text, FixedOrder(annotations))
        /\ text = input.text
        /\ annotations = input.annotations

C15_Witness ==
    /\ pc = "redacted"
    /\ ~has_overlap(annotations)
    /\ Cardinality(annotations) = MaxAnnos
    /\ Cardinality({a.tag : a \in annotations}) = 2
    /\ \E a \in annotations : \E b \in annotations :
          a # b /\ a.tag = b.tag /\ a.text # b.text

====
